---- MODULE Spec2Model ----
(***************************************************************************)
(* Model of poll.py: extract_polls, format_html_summary, generate_pdf and  *)
(* main.                                                                   *)
(*                                                                         *)
(* A transcript is a sequence of tokens.  Each token stands for one fixed  *)
(* piece of text, chosen so that every element of the two regular          *)
(* expressions of extract_polls begins and ends on a token boundary:       *)
(*   hdr    "[DD/MM/YYYY, HH:MM:SS]"  (a = the date, b = the time)         *)
(*   sp     " "                                                            *)
(*   nl     "\n"                                                           *)
(*   poll   U+200E followed by "POLL:"                                     *)
(*   opt    U+200E followed by "OPTION:"                                   *)
(*   votes  "(n votes)" or "(n vote)"  (n = the integer)                   *)
(*   txt    any other text without whitespace at its ends, a newline, or a *)
(*          piece of the above (a = the text)                              *)
(***************************************************************************)
EXTENDS Integers, Sequences, FiniteSets, TLC

VARIABLES pc, readable, content, target_date, pdf_path,
          polls, html, success, stdout, engine

vars == <<pc, readable, content, target_date, pdf_path,
          polls, html, success, stdout, engine>>

-----------------------------------------------------------------------------
(* Tokens *)

Tok(k, a, b, n) == [k |-> k, a |-> a, b |-> b, n |-> n]
Hdr(d, t) == Tok("hdr", d, t, 0)
SP == Tok("sp", " ", "", 0)
NL == Tok("nl", "\n", "", 0)
POLL == Tok("poll", "POLL:", "", 0)
OPT == Tok("opt", "OPTION:", "", 0)
Votes(n) == Tok("votes", "votes", "", n)
Vote(n) == Tok("votes", "vote", "", n)
Txt(s) == Tok("txt", s, "", 0)

\* Python's None, for target_date and the --pdf argument.
None == "None"

\* Truth value of an optional string argument: None and "" are false.
Truthy(x) == x # None /\ x # ""

\* Smallest element of a set of positions, 0 when there is none.
FirstIdx(S) == IF S = {} THEN 0 ELSE CHOOSE i \in S : \A j \in S : i <= j

-----------------------------------------------------------------------------
(* extract_polls *)

\* str.isspace for one token: strip() removes spaces and newlines, not the
\* U+200E mark that starts the poll and option tokens.
IsSpace(tok) == tok.k = "sp" \/ tok.k = "nl"

\* str.strip()
Strip(s) ==
  LET keep == {i \in 1..Len(s) : ~IsSpace(s[i])}
  IN IF keep = {} THEN <<>>
     ELSE SubSeq(s, FirstIdx(keep),
                 CHOOSE i \in keep : \A j \in keep : j <= i)

\* str.split('\n'): n newlines give n + 1 pieces.
RECURSIVE SplitLines(_)
SplitLines(s) ==
  LET n == FirstIdx({i \in 1..Len(s) : s[i].k = "nl"})
  IN IF n = 0 THEN <<s>>
     ELSE <<SubSeq(s, 1, n - 1)>> \o SplitLines(SubSeq(s, n + 1, Len(s)))

\* '\n'.join(lines)
RECURSIVE Join(_)
Join(lines) ==
  IF lines = <<>> THEN <<>>
  ELSE IF Len(lines) = 1 THEN lines[1]
  ELSE lines[1] \o <<NL>> \o Join(Tail(lines))

\* The places where "$" matches without re.MULTILINE: the end of the text
\* and just before a newline that ends the text.  Position e is "before
\* token e"; Len(s) + 1 is the end.
Dollar(s) ==
  {Len(s) + 1} \cup (IF Len(s) > 0 /\ s[Len(s)].k = "nl" THEN {Len(s)} ELSE {})

\* poll_pattern with re.DOTALL, searched from position pos: the leftmost
\* header followed by a space with a poll token anywhere after it, the first
\* such poll token (lazy .*?), and the content up to the first header or "$"
\* after it (lazy (.*?) and the lookahead).
PollStarts(s, pos) ==
  {i \in pos..(Len(s) - 2) :
     /\ s[i].k = "hdr"
     /\ s[i + 1].k = "sp"
     /\ \E j \in (i + 2)..Len(s) : s[j].k = "poll"}

PollMatch(s, pos) ==
  LET i == FirstIdx(PollStarts(s, pos))
      j == FirstIdx({j \in (i + 2)..Len(s) : s[j].k = "poll"})
      e == FirstIdx({e \in (j + 1)..(Len(s) + 1) :
                       \/ e \in Dollar(s)
                       \/ (e <= Len(s) /\ s[e].k = "hdr")})
  IN [date |-> s[i].a, time |-> s[i].b,
      poll_content |-> SubSeq(s, j + 1, e - 1), end |-> e]

\* re.finditer(poll_pattern, content, re.DOTALL)
RECURSIVE PollMatches(_, _)
PollMatches(s, pos) ==
  IF PollStarts(s, pos) = {} THEN <<>>
  ELSE LET m == PollMatch(s, pos)
       IN <<m>> \o PollMatches(s, m.end)

\* option_pattern (no DOTALL: the label holds no newline), searched from pos:
\* an option token and a space, the shortest label, a space and a vote count.
OptionEnds(c, i) ==
  {k \in (i + 2)..(Len(c) - 1) :
     /\ c[k].k = "sp"
     /\ c[k + 1].k = "votes"
     /\ \A m \in (i + 2)..(k - 1) : c[m].k # "nl"}

OptionStarts(c, pos) ==
  {i \in pos..(Len(c) - 1) :
     /\ c[i].k = "opt"
     /\ c[i + 1].k = "sp"
     /\ OptionEnds(c, i) # {}}

\* re.finditer(option_pattern, poll_content): the (option, votes) groups.
RECURSIVE OptionMatches(_, _)
OptionMatches(c, pos) ==
  IF OptionStarts(c, pos) = {} THEN <<>>
  ELSE LET i == FirstIdx(OptionStarts(c, pos))
           k == FirstIdx(OptionEnds(c, i))
       IN <<[option |-> SubSeq(c, i + 2, k - 1), votes |-> c[k + 1].n]>>
          \o OptionMatches(c, k + 2)

\* A dict is the sequence of its items in insertion order.
DictKeys(d) == {d[i].key : i \in 1..Len(d)}

\* DictSet keeping the first value of a key that is already present.
DictSetKeepFirst(d, key, val) ==
  IF key \in DictKeys(d) THEN d ELSE Append(d, [key |-> key, val |-> val])

\* d[key] = val: a new key goes last, a present key keeps its place.
DictSet(d, key, val) ==
  IF key \in DictKeys(d)
  THEN [i \in 1..Len(d) |-> IF d[i].key = key THEN [key |-> key, val |-> val]
                                            ELSE d[i]]
  ELSE Append(d, [key |-> key, val |-> val])

\* The loop that fills options from the option matches.
RECURSIVE FillOptions(_, _)
FillOptions(d, ms) ==
  IF ms = <<>> THEN d
  ELSE FillOptions(DictSet(d, Strip(ms[1].option), ms[1].votes), Tail(ms))

ParseOptions(poll_content) ==
  FillOptions(<<>>, OptionMatches(poll_content, 1))

\* question_lines: the stripped lines that are not blank and hold no option
\* token; question is their join, stripped.
HasOption(line) == \E i \in 1..Len(line) : line[i].k = "opt"

\* QuestionLines keeping the lines as they are, not stripped.
QuestionLinesUntrimmed(poll_content) ==
  SelectSeq(SplitLines(poll_content),
            LAMBDA line : Strip(line) # <<>> /\ ~HasOption(line))

QuestionLines(poll_content) ==
  LET kept == SelectSeq(SplitLines(poll_content),
                        LAMBDA line : Strip(line) # <<>> /\ ~HasOption(line))
  IN [i \in 1..Len(kept) |-> Strip(kept[i])]

ParseQuestion(poll_content) == Strip(Join(QuestionLines(poll_content)))

\* The date filter of the loop: a match is skipped when a target date is
\* given and differs from the date captured by the match.
Skipped(date, target) == Truthy(target) /\ date # target

\* AddPoll putting the record first.
AddPollFront(ps, p) == <<p>> \o ps

\* polls.append(...)
AddPoll(ps, p) == Append(ps, p)

RECURSIVE BuildPolls(_, _, _)
BuildPolls(ps, ms, target) ==
  IF ms = <<>> THEN ps
  ELSE IF Skipped(ms[1].date, target) THEN BuildPolls(ps, Tail(ms), target)
  ELSE BuildPolls(
         AddPoll(ps, [date |-> ms[1].date,
                      time |-> ms[1].time,
                      question |-> ParseQuestion(ms[1].poll_content),
                      options |-> ParseOptions(ms[1].poll_content)]),
         Tail(ms), target)

ExtractPolls(text, target) == BuildPolls(<<>>, PollMatches(text, 1), target)

-----------------------------------------------------------------------------
(* format_html_summary *)

\* sum(options.values())
RECURSIVE SumVotes(_)
SumVotes(d) == IF d = <<>> THEN 0 ELSE d[1].val + SumVotes(Tail(d))

\* Before with ties broken towards the later item.
BeforeOrEqual(x, y) == x.val >= y.val

\* Whether item x goes before item y in sorted(..., key=votes, reverse=True).
Before(x, y) == x.val > y.val

\* sorted(options.items(), key=lambda x: x[1], reverse=True): a stable sort,
\* items of equal count keep the order of the dict.  Insertion from the left:
\* each item goes after the items already placed that do not come after it.
RECURSIVE InsertSorted(_, _)
InsertSorted(sorted, x) ==
  IF sorted = <<>> THEN <<x>>
  ELSE IF Before(x, sorted[1]) THEN <<x>> \o sorted
  ELSE <<sorted[1]>> \o InsertSorted(Tail(sorted), x)

RECURSIVE SortedFrom(_, _)
SortedFrom(sorted, d) ==
  IF d = <<>> THEN sorted
  ELSE SortedFrom(InsertSorted(sorted, d[1]), Tail(d))

SortedOptions(d) == SortedFrom(<<>>, d)

\* FormatTenths cutting the digits after the first decimal.
FormatTenthsTruncated(votes, total_votes) ==
  IF total_votes = 0 THEN [raises |-> TRUE, tenths |-> 0]
  ELSE [raises |-> FALSE, tenths |-> (votes * 1000) \div total_votes]

\* f"{votes / total_votes * 100:.1f}": whether the division raises
\* ZeroDivisionError, and otherwise the number displayed, in tenths of a
\* percent: the nearest tenth, a tie going to the even one.
FormatTenths(votes, total_votes) ==
  IF total_votes = 0 THEN [raises |-> TRUE, tenths |-> 0]
  ELSE LET q == (votes * 1000) \div total_votes
           r == (votes * 1000) % total_votes
       IN [raises |-> FALSE,
           tenths |-> IF 2 * r < total_votes THEN q
                      ELSE IF 2 * r > total_votes THEN q + 1
                      ELSE IF q % 2 = 0 THEN q ELSE q + 1]

\* Percentage without the test of total_votes.
PercentageUnguarded(votes, total_votes) == FormatTenths(votes, total_votes)

\* percentage = (votes / total_votes * 100) if total_votes > 0 else 0, as
\* displayed with one decimal.
Percentage(votes, total_votes) ==
  IF total_votes > 0 THEN FormatTenths(votes, total_votes)
  ELSE [raises |-> FALSE, tenths |-> 0]

\* WinnerLines naming the last of the sorted options.
WinnerLinesLast(sorted_options, total_votes) ==
  IF total_votes > 0
  THEN <<[winner |-> sorted_options[Len(sorted_options)].key,
          votes |-> sorted_options[Len(sorted_options)].val]>>
  ELSE <<>>

\* The winner lines of one poll: one when total_votes > 0, else none.
WinnerLines(sorted_options, total_votes) ==
  IF total_votes > 0
  THEN <<[winner |-> sorted_options[1].key, votes |-> sorted_options[1].val]>>
  ELSE <<>>

\* The <div class="poll"> of poll number i.
PollSection(i, poll) ==
  LET total_votes == SumVotes(poll.options)
      sorted_options == SortedOptions(poll.options)
  IN [number |-> i,
      time |-> poll.time,
      question |-> poll.question,
      total_votes |-> total_votes,
      winner_lines |-> WinnerLines(sorted_options, total_votes),
      items |-> [k \in 1..Len(sorted_options) |->
                   [option |-> sorted_options[k].key,
                    votes |-> sorted_options[k].val,
                    percentage |-> Percentage(sorted_options[k].val,
                                              total_votes)]]]

FormatHtmlSummary(ps, date) ==
  [title_date |-> IF Truthy(date) THEN date ELSE "",
   no_polls |-> (ps = <<>>),
   sections |-> [i \in 1..Len(ps) |-> PollSection(i, ps[i])]]

\* An uncaught exception while formatting: a division by zero.
FormatRaises(h) ==
  \E i \in 1..Len(h.sections) : \E k \in 1..Len(h.sections[i].items) :
    h.sections[i].items[k].percentage.raises

-----------------------------------------------------------------------------
(* main and generate_pdf *)

NoHtml == [title_date |-> "", no_polls |-> FALSE, sections |-> <<>>]

Printed(kind, text) == [kind |-> kind, text |-> text]

\* polls = extract_polls(args.file, args.date); open() raises on a file that
\* cannot be read and nothing catches it.
MainExtract ==
  /\ pc = "extract"
  /\ IF readable
     THEN /\ polls' = ExtractPolls(content, target_date)
          /\ pc' = "format"
     ELSE /\ polls' = polls
          /\ pc' = "crashed"
  /\ UNCHANGED <<readable, content, target_date, pdf_path,
                 html, success, stdout, engine>>

\* html_content = format_html_summary(polls, args.date)
MainFormat ==
  /\ pc = "format"
  /\ LET h == FormatHtmlSummary(polls, target_date)
     IN IF FormatRaises(h)
        THEN /\ html' = html
             /\ pc' = "crashed"
        ELSE /\ html' = h
             /\ pc' = "output"
  /\ UNCHANGED <<readable, content, target_date, pdf_path,
                 polls, success, stdout, engine>>

\* generate_pdf: what it returns and prints when write_pdf returns and when
\* write_pdf raises an Exception, which the except clause catches.
GeneratePdf(raised) ==
  IF raised
  THEN [returns |-> "False",
        prints |-> <<Printed("error", "Error generating PDF")>>]
  ELSE [returns |-> "True", prints |-> <<>>]

\* MainReport printing the confirmation whatever generate_pdf returned.
MainReportAlways(ok, path) == <<Printed("confirmation", path)>>

\* if success: print(f"PDF summary written to {args.pdf}")
MainReport(ok, path) ==
  IF ok = "True" THEN <<Printed("confirmation", path)>> ELSE <<>>

\* args.pdf given: success = generate_pdf(html_content, args.pdf), then the
\* confirmation.
MainPdf(raised) ==
  /\ pc = "output"
  /\ Truthy(pdf_path)
  /\ engine' = IF raised THEN "raised" ELSE "returned"
  /\ success' = GeneratePdf(raised).returns
  /\ stdout' = stdout \o GeneratePdf(raised).prints
                      \o MainReport(GeneratePdf(raised).returns, pdf_path)
  /\ pc' = "done"
  /\ UNCHANGED <<readable, content, target_date, pdf_path, polls, html>>

\* write_pdf returns.
MainPdfWritten == MainPdf(FALSE)

\* write_pdf raises.
MainPdfFailed == MainPdf(TRUE)

\* No args.pdf: print(html_content)
MainPrintHtml ==
  /\ pc = "output"
  /\ ~Truthy(pdf_path)
  /\ stdout' = Append(stdout, Printed("html", ""))
  /\ pc' = "done"
  /\ UNCHANGED <<readable, content, target_date, pdf_path, polls, html,
                 success, engine>>

Next ==
  \/ MainExtract
  \/ MainFormat
  \/ MainPdfWritten
  \/ MainPdfFailed
  \/ MainPrintHtml

-----------------------------------------------------------------------------
(* Inputs *)

D1 == "05/05/2024"
D2 == "06/05/2024"
T1 == "10:00:00"
T2 == "11:30:00"
H1 == Hdr(D1, T1)
H2 == Hdr(D2, T2)
Headers == {H1, H2}

\* --date: absent, empty, the date of a header, and that date written
\* without its leading zeros.
TargetDates == {None, "", D1, "5/5/2024"}
PdfPaths == {None, "out.pdf"}

\* The state when main starts on a readable file that holds text.
Start(text, dates, paths) ==
  /\ pc = "extract"
  /\ readable = TRUE
  /\ content = text
  /\ target_date \in dates
  /\ pdf_path \in paths
  /\ polls = <<>>
  /\ html = NoHtml
  /\ success = None
  /\ stdout = <<>>
  /\ engine = "not called"

\* The state when main starts on a file that cannot be read.
StartUnreadable ==
  /\ pc = "extract"
  /\ readable = FALSE
  /\ content = <<>>
  /\ target_date = None
  /\ pdf_path = None
  /\ polls = <<>>
  /\ html = NoHtml
  /\ success = None
  /\ stdout = <<>>
  /\ engine = "not called"

\* Message entries: an ordinary message, a poll message with question q, a
\* header not followed by a space, a poll token on a line of its own, and a
\* poll token behind a header whose date has no leading zeros.
Ordinary(h) == <<h, SP, Txt("x"), NL>>
PollEntry(h, q) ==
  <<h, SP, Txt("x"), SP, POLL, NL, Txt(q), NL, OPT, SP, Txt("a"), SP, Vote(1), NL>>
NoSpace(h) == <<h, Txt("x"), NL>>
BarePoll == <<POLL, Txt("s"), NL>>
BadHeaderPoll == <<Txt("[5/5/2024, 10:00:00]"), SP, POLL, Txt("t"), NL>>

Entries ==
  {Ordinary(h) : h \in Headers}
    \cup {PollEntry(h, q) : h \in Headers, q \in {"q", "r"}}
    \cup {NoSpace(h) : h \in Headers}
    \cup {BarePoll, BadHeaderPoll}

MaxEntries == 3

\* The pieces of text of a sequence, one after the other.
RECURSIVE Concat(_)
Concat(pieces) ==
  IF pieces = <<>> THEN <<>> ELSE pieces[1] \o Concat(Tail(pieces))

\* The transcripts: at most MaxEntries entries.
Init ==
  \/ \E n \in 0..MaxEntries : \E es \in [1..n -> Entries] :
       Start(Concat(es), TargetDates, PdfPaths)
  \/ StartUnreadable

Spec == Init /\ [][Next]_vars

\* One poll message whose block is made of lines, with or without an
\* ordinary message before it, and ended by the end of the text, by a last
\* newline, or by the header of a following message.
QLine == <<Txt("q")>>
PaddedLine == <<SP, Txt("u"), SP, Txt("v"), SP>>
BlankLine == <<>>
OptionA1 == <<OPT, SP, Txt("a"), SP, Vote(1)>>
OptionA2 == <<OPT, SP, SP, Txt("a"), SP, SP, Votes(2)>>
TextAroundOption == <<Txt("w"), SP, OPT, SP, Txt("c"), SP, Votes(2), SP, Txt("z")>>
UnparsedOption == <<SP, OPT, Txt("a"), SP, Txt("(-1 votes)")>>

Lines ==
  {QLine, PaddedLine, BlankLine, OptionA1, OptionA2, TextAroundOption,
   UnparsedOption}

MaxLines == 3

\* What is before and after the poll message: nothing, a last newline, or
\* an ordinary message on each side.
Around ==
  {<<<<>>, <<>>>>, <<<<>>, <<NL>>>>, <<Ordinary(H2), <<NL>> \o Ordinary(H2)>>}

InitBlock ==
  \/ \E n \in 1..MaxLines : \E ls \in [1..n -> Lines] : \E ar \in Around :
       Start(ar[1] \o <<H1, SP, Txt("x"), SP, POLL>> \o Join(ls) \o ar[2],
             {None}, PdfPaths)
  \/ StartUnreadable

SpecBlock == InitBlock /\ [][Next]_vars

\* One poll message with at most MaxOptions option lines, each giving a
\* label 0 to MaxVotes votes.  The code only compares labels, so a line takes
\* a label already used or the next unused one of LabelSeq.
MaxOptions == 3
MaxVotes == 3

LabelSeq == <<"a", "b", "c">>

OptionLine(label, n) ==
  <<NL, OPT, SP, Txt(label), SP, IF n = 1 THEN Vote(n) ELSE Votes(n)>>

\* Whether each line takes a label already used or the next unused one.
InLabelOrder(ls) ==
  \A i \in 1..Len(ls) :
    ls[i][1] = 1 \/ \E m \in 1..(i - 1) : ls[m][1] >= ls[i][1] - 1

InitVotes ==
  \/ \E n \in 0..MaxOptions :
       \E ls \in [1..n -> (1..Len(LabelSeq)) \X (0..MaxVotes)] :
         /\ InLabelOrder(ls)
         /\ Start(<<H1, SP, Txt("x"), SP, POLL, NL, Txt("q")>>
                    \o Concat([i \in 1..n |-> OptionLine(LabelSeq[ls[i][1]], ls[i][2])])
                    \o <<NL>>,
                  {None}, PdfPaths)
  \/ StartUnreadable

SpecVotes == InitVotes /\ [][Next]_vars

-----------------------------------------------------------------------------
(* The transcript as the specification describes it: message entries, each *)
(* introduced by a header; a poll block is an entry that holds a poll      *)
(* token, and its text runs from that token to the next header.            *)

\* extract_polls has just returned polls; format_html_summary has just
\* returned html.  Nothing changes either of them afterwards.
Extracted == readable /\ pc = "format"
Formatted == readable /\ pc = "output"

\* Every entry is introduced by a header followed by a space.
WellFormed(s) ==
  /\ s # <<>> => s[1].k = "hdr"
  /\ \A i \in 1..Len(s) : s[i].k = "hdr" => (i < Len(s) /\ s[i + 1].k = "sp")

PollPositions(s) == {j \in 1..Len(s) : s[j].k = "poll"}

\* The header of the entry that holds position j, 0 when none precedes j.
EntryStart(s, j) ==
  LET hs == {i \in 1..j : s[i].k = "hdr"}
  IN IF hs = {} THEN 0 ELSE CHOOSE i \in hs : \A m \in hs : m <= i

\* The first poll token of each entry that holds one.
PollBlockMarks(s) ==
  {j \in PollPositions(s) :
     /\ EntryStart(s, j) # 0
     /\ \A m \in EntryStart(s, j)..(j - 1) : s[m].k # "poll"}

\* The text of the block marked at j: up to the next header or the end.
BlockAfter(s, j) ==
  LET hs == {e \in (j + 1)..Len(s) : s[e].k = "hdr"}
  IN SubSeq(s, j + 1, IF hs = {} THEN Len(s) ELSE FirstIdx(hs) - 1)

\* A set of positions in ascending order.
RECURSIVE Ascending(_)
Ascending(S) ==
  IF S = {} THEN <<>> ELSE <<FirstIdx(S)>> \o Ascending(S \ {FirstIdx(S)})

\* Whether a is b with some elements left out.
RECURSIVE IsSubseq(_, _)
IsSubseq(a, b) ==
  IF a = <<>> THEN TRUE
  ELSE IF b = <<>> THEN FALSE
  ELSE IF a[1] = b[1] THEN IsSubseq(Tail(a), Tail(b))
  ELSE IsSubseq(a, Tail(b))

\* The poll block marks of a well-formed transcript, in order.
Marks == Ascending(PollBlockMarks(content))

\* The header of the entry of the poll block marked at j.
BlockHeader(j) == content[EntryStart(content, j)]

-----------------------------------------------------------------------------
(* Claims *)

\* C2: in a transcript of entries each introduced by a header, every record
\* carries the date and time of the header of the entry that holds its poll
\* token: without a filter the k-th record carries those of the k-th poll
\* block, and with any filter those of some poll block.
C2_DateTimeOfPollEntry ==
  (Extracted /\ WellFormed(content)) =>
    /\ \A k \in 1..Len(polls) : \E j \in PollBlockMarks(content) :
         /\ polls[k].date = BlockHeader(j).a
         /\ polls[k].time = BlockHeader(j).b
    /\ ~Truthy(target_date) =>
         /\ Len(polls) = Len(Marks)
         /\ \A k \in 1..Len(polls) :
              /\ polls[k].date = BlockHeader(Marks[k]).a
              /\ polls[k].time = BlockHeader(Marks[k]).b

\* The poll blocks whose own header date is the target date, in order.
FilteredMarks ==
  Ascending({j \in PollBlockMarks(content) : BlockHeader(j).a = target_date})

\* C1: with a target date D, the records are all and only the poll blocks
\* whose own header date is D, in order.
C1_AllAndOnlyMatchingDate ==
  (Extracted /\ WellFormed(content) /\ Truthy(target_date)) =>
    /\ Len(polls) = Len(FilteredMarks)
    /\ \A k \in 1..Len(polls) :
         /\ polls[k].date = target_date
         /\ polls[k].time = BlockHeader(FilteredMarks[k]).b
         /\ polls[k].question = ParseQuestion(BlockAfter(content, FilteredMarks[k]))

\* C7: the records are in the order of their poll blocks in the transcript
\* (what each record shows is found, in order, among the blocks at the poll
\* tokens; with no filter and entries introduced by headers it is exactly
\* the sequence of poll blocks), and the result for a target date is an
\* order-preserving subsequence of the result with no filter.
Shown(ps) ==
  [k \in 1..Len(ps) |-> [question |-> ps[k].question, options |-> ps[k].options]]

BlocksAt(marks) ==
  [k \in 1..Len(marks) |->
     [question |-> ParseQuestion(BlockAfter(content, marks[k])),
      options |-> ParseOptions(BlockAfter(content, marks[k]))]]

C7_TranscriptOrder ==
  Extracted =>
    /\ IsSubseq(Shown(polls), BlocksAt(Ascending(PollPositions(content))))
    /\ (WellFormed(content) /\ ~Truthy(target_date)) =>
         Shown(polls) = BlocksAt(Marks)
    /\ IsSubseq(polls, ExtractPolls(content, None))

C7_Witness ==
  /\ pc = "format"
  /\ Truthy(target_date)
  /\ Len(polls) >= 2
  /\ polls[1].question # polls[2].question
  /\ Len(polls) < Len(ExtractPolls(content, None))

\* C8: when the conversion engine raises, generate_pdf returns False, its
\* error message is the only thing printed and main ends normally; when the
\* engine returns, generate_pdf returns True and main prints exactly the
\* confirmation naming the output path.
C8_PdfFailureIsReported ==
  /\ engine = "raised" =>
       /\ pc = "done"
       /\ success = "False"
       /\ stdout = <<Printed("error", "Error generating PDF")>>
  /\ engine = "returned" =>
       /\ pc = "done"
       /\ success = "True"
       /\ stdout = <<Printed("confirmation", pdf_path)>>

C8_Witness == engine = "raised" /\ polls # <<>>

\* The option matches of the block of the k-th record (no filter, entries
\* introduced by headers) and the place of the first one whose trimmed label
\* is key.
BlockOptions(k) == OptionMatches(BlockAfter(content, Marks[k]), 1)

FirstSeen(ms, key) ==
  FirstIdx({m \in 1..Len(ms) : Strip(ms[m].option) = key})

LastSeen(ms, key) ==
  LET S == {m \in 1..Len(ms) : Strip(ms[m].option) = key}
  IN CHOOSE m \in S : \A x \in S : x <= m

Unfiltered == WellFormed(content) /\ ~Truthy(target_date)

\* C6: the labels of a record are unique keys, they are the trimmed labels
\* of the option matches of the block, each count is a non-negative integer
\* and is the count of the last match with that label.
C6_LastWriteWins ==
  (Extracted /\ Unfiltered) =>
    \A k \in 1..Len(polls) :
      LET d == polls[k].options
          ms == BlockOptions(k)
      IN /\ \A i, j \in 1..Len(d) : i # j => d[i].key # d[j].key
         /\ {d[i].key : i \in 1..Len(d)}
              = {Strip(ms[m].option) : m \in 1..Len(ms)}
         /\ \A i \in 1..Len(d) :
              /\ d[i].val \in Nat
              /\ d[i].val = ms[LastSeen(ms, d[i].key)].votes

C6_Witness ==
  /\ pc = "format"
  /\ Unfiltered
  /\ Len(polls) = 1
  /\ \E m1, m2 \in 1..Len(BlockOptions(1)) :
       /\ m1 < m2
       /\ BlockOptions(1)[m1].option # BlockOptions(1)[m2].option
       /\ Strip(BlockOptions(1)[m1].option) = Strip(BlockOptions(1)[m2].option)
       /\ BlockOptions(1)[m1].votes # BlockOptions(1)[m2].votes

\* C4: the options of every poll are listed in descending order of vote
\* count, every option once, and two options of equal count are listed in
\* the order in which their labels first occurred in the block.
C4_StableDescending ==
  (Formatted /\ Unfiltered) =>
    \A i \in 1..Len(html.sections) :
      LET items == html.sections[i].items
          d == polls[i].options
          ms == BlockOptions(i)
      IN /\ Len(items) = Len(d)
         /\ {<<items[a].option, items[a].votes>> : a \in 1..Len(items)}
              = {<<d[a].key, d[a].val>> : a \in 1..Len(d)}
         /\ \A a, b \in 1..Len(items) : a < b =>
              /\ items[a].votes >= items[b].votes
              /\ items[a].votes = items[b].votes =>
                   FirstSeen(ms, items[a].option) < FirstSeen(ms, items[b].option)

\* An equal count between a label whose count was overwritten and a label
\* seen after it.
C4_Witness ==
  /\ pc = "output"
  /\ Unfiltered
  /\ Len(html.sections) = 1
  /\ LET items == html.sections[1].items
         ms == BlockOptions(1)
     IN \E a, b \in 1..Len(items) :
          /\ a < b
          /\ items[a].votes = items[b].votes
          /\ FirstSeen(ms, items[a].option) # LastSeen(ms, items[a].option)
          /\ ms[FirstSeen(ms, items[a].option)].votes # items[a].votes

\* The largest count among the options of a dict, 0 for none.
MaxVal(d) ==
  IF d = <<>> THEN 0
  ELSE CHOOSE v \in {d[i].val : i \in 1..Len(d)} :
         \A i \in 1..Len(d) : d[i].val <= v

\* C3: a poll with a vote has exactly one winner line; it names an option of
\* the poll with the largest count, and the one among those whose label
\* first occurred earliest in the block.
C3_Winner ==
  (Formatted /\ Unfiltered) =>
    \A i \in 1..Len(html.sections) :
      LET d == polls[i].options
          ms == BlockOptions(i)
          ws == html.sections[i].winner_lines
      IN MaxVal(d) > 0 =>
           /\ Len(ws) = 1
           /\ ws[1].votes = MaxVal(d)
           /\ \E a \in 1..Len(d) :
                d[a].key = ws[1].winner /\ d[a].val = ws[1].votes
           /\ \A a \in 1..Len(d) : d[a].val = MaxVal(d) =>
                FirstSeen(ms, ws[1].winner) <= FirstSeen(ms, d[a].key)

\* Two options share the largest count, which is not 0.
C3_Witness ==
  /\ pc = "output"
  /\ Unfiltered
  /\ Len(html.sections) = 1
  /\ LET d == polls[1].options
     IN /\ MaxVal(d) > 0
        /\ \E a, b \in 1..Len(d) :
             a # b /\ d[a].val = MaxVal(d) /\ d[b].val = MaxVal(d)
        /\ \E a \in 1..Len(d) : d[a].val < MaxVal(d)

\* C5: a poll whose counts sum to 0 has no winner line and every one of its
\* options is listed with 0.0 percent; formatting never fails on a division.
C5_NoVotes ==
  /\ readable => pc # "crashed"
  /\ Formatted =>
       \A i \in 1..Len(html.sections) :
         MaxVal(polls[i].options) = 0 =>
           /\ html.sections[i].total_votes = 0
           /\ html.sections[i].winner_lines = <<>>
           /\ Len(html.sections[i].items) = Len(polls[i].options)
           /\ \A a \in 1..Len(html.sections[i].items) :
                html.sections[i].items[a].percentage
                  = [raises |-> FALSE, tenths |-> 0]

\* A poll with two options, all at 0 votes, was rendered.
C5_Witness ==
  /\ pc = "output"
  /\ Len(html.sections) = 1
  /\ Len(html.sections[1].items) >= 2
  /\ MaxVal(polls[1].options) = 0

\* The sum of the displayed percentages of a section, in tenths.
RECURSIVE SumTenths(_)
SumTenths(items) ==
  IF items = <<>> THEN 0
  ELSE items[1].percentage.tenths + SumTenths(Tail(items))

Abs(x) == IF x < 0 THEN -x ELSE x

\* C9: for a poll with a vote, the displayed percentages sum to 100.0 within
\* 0.05 times the number of options.
C9_PercentagesSum ==
  Formatted =>
    \A i \in 1..Len(html.sections) :
      html.sections[i].total_votes > 0 =>
        2 * Abs(SumTenths(html.sections[i].items) - 1000)
          <= Len(html.sections[i].items)

\* Three options whose displayed percentages do not sum to exactly 100.0.
C9_Witness ==
  /\ pc = "output"
  /\ Len(html.sections) = 1
  /\ html.sections[1].total_votes > 0
  /\ Len(html.sections[1].items) = 3
  /\ SumTenths(html.sections[1].items) # 1000

\* What is left of a block text when its newlines, the lines that hold an
\* option token and the spaces at both ends of a line are taken away: the
\* positions kept, by the line each is on.
LineOf(b, i) == Cardinality({m \in 1..(i - 1) : b[m].k = "nl"})

OnLine(b, n) == {m \in 1..Len(b) : LineOf(b, m) = n /\ b[m].k # "nl"}

Kept(b) ==
  {i \in 1..Len(b) :
     /\ b[i].k # "nl"
     /\ \A m \in OnLine(b, LineOf(b, i)) : b[m].k # "opt"
     /\ \E m \in OnLine(b, LineOf(b, i)) : m <= i /\ b[m].k # "sp"
     /\ \E m \in OnLine(b, LineOf(b, i)) : m >= i /\ b[m].k # "sp"}

\* The kept positions in order, a newline between two on different lines;
\* lines of which nothing is kept leave no trace.
RECURSIVE KeptText(_, _, _)
KeptText(b, ks, last) ==
  IF ks = <<>> THEN <<>>
  ELSE (IF last # 0 /\ LineOf(b, last) # LineOf(b, ks[1]) THEN <<NL>> ELSE <<>>)
         \o <<b[ks[1]]>> \o KeptText(b, Tail(ks), ks[1])

NonBlankQuestion(b) == KeptText(b, Ascending(Kept(b)), 0)

\* The same with every line that holds no option token kept, blank or not,
\* and the result trimmed: one newline for each line boundary between them.
EveryLineQuestion(b) ==
  LET ls == SelectSeq(SplitLines(b), LAMBDA line : ~HasOption(line))
  IN Strip(Join([i \in 1..Len(ls) |-> Strip(ls[i])]))

\* C10 as stated: the question is the lines of the block text that hold no
\* option token, each trimmed, in order, joined by newlines.
C10_EveryLineJoined ==
  (Extracted /\ Unfiltered) =>
    \A k \in 1..Len(polls) :
      polls[k].question = EveryLineQuestion(BlockAfter(content, Marks[k]))

\* C10 amended: the question is the lines of the block text (from after the
\* poll token to the next header or the end) that hold no option token and
\* are not blank, each trimmed, in order, joined by newlines; no option
\* token is in it, and the options are those of the block text alone.
C10_NonBlankLinesJoined ==
  (Extracted /\ Unfiltered) =>
    /\ Len(polls) = Len(Marks)
    /\ \A k \in 1..Len(polls) :
         /\ polls[k].question = NonBlankQuestion(BlockAfter(content, Marks[k]))
         /\ \A i \in 1..Len(polls[k].question) : polls[k].question[i].k # "opt"
         /\ polls[k].options = ParseOptions(BlockAfter(content, Marks[k]))

\* A block with a padded line, a line whose option does not parse and a
\* question line, followed by another message.
C10_Witness ==
  /\ pc = "format"
  /\ Unfiltered
  /\ Len(polls) = 1
  /\ \E i \in 1..Len(polls[1].question) : polls[1].question[i].k = "nl"
  /\ LET b == BlockAfter(content, Marks[1])
     IN /\ \E i \in 1..Len(b) : b[i].k = "opt"
        /\ ParseOptions(b) = <<>>
        /\ b # Strip(b)
        /\ Len(b) + Marks[1] < Len(content)

====
